---- MODULE Spec2Model ----
(***************************************************************************)
(* Model of the script harness of yaade (src/unnamed/part_000): the log    *)
(* buffer, the error slot, the callback slot, the exec bridge, the         *)
(* delivery entry point __doCallback and the top-level async run driver,   *)
(* together with the host that drives them (delivers events, completes     *)
(* bridge invocations, settles the jasmine run).                           *)
(*                                                                         *)
(* JavaScript is single threaded: `cur` names who holds the thread.  A     *)
(* coroutine (the run driver with the script body, or one delivery with    *)
(* its handler) runs from one await to the next without interleaving; the  *)
(* host and the continuations of settled awaits run only when the thread   *)
(* is free (cur = "host").                                                 *)
(***************************************************************************)
EXTENDS Integers, Sequences, FiniteSets

\* ---------------------------------------------------------------- bounds
MaxLogs == 2        \* log calls in one execution
MaxExec == 2        \* bridge invocations in one execution
MaxDeliver == 2     \* deliver calls in one execution
MaxTime == 0        \* largest reading of the clock (Date.now())

\* ---------------------------------------------------------------- values
\* Text the harness converts is a sequence of one-character strings.
SP == " "
QUOTE == "\""
BSLASH == "\\"
DigitChars == <<"0", "1", "2", "3", "4", "5", "6", "7", "8", "9">>

\* JavaScript values that are logged or delivered: numbers and strings.
NumV(n) == [t |-> "num", n |-> n, s |-> <<>>]
StrV(s) == [t |-> "str", n |-> 0, s |-> s]

RECURSIVE NumberToString(_)
\* Number.prototype.toString for a non-negative integer.
NumberToString(n) ==
    IF n < 10 THEN <<DigitChars[n + 1]>>
    ELSE NumberToString(n \div 10) \o <<DigitChars[(n % 10) + 1]>>

\* ToString as Array.prototype.join applies it to an element.
ToString(v) == IF v.t = "num" THEN NumberToString(v.n) ELSE v.s

RECURSIVE join(_, _)
\* Array.prototype.join: the separator goes before every element but the
\* first (built from the right end here, element k after the first k-1).
join(messages, sep) ==
    IF Len(messages) = 0 THEN <<>>
    ELSE IF Len(messages) = 1 THEN ToString(messages[1])
    ELSE join(SubSeq(messages, 1, Len(messages) - 1), sep)
            \o <<sep>> \o ToString(messages[Len(messages)])

\* Values that are thrown, rejected with or resolved with.  e.message is a
\* string for an Error, undefined for any other non-null value, and the
\* property access itself throws a TypeError for null and undefined.
ErrorV(m) == [kind |-> "Error", message |-> m]
NonErrorV == [kind |-> "string", message |-> ""]
NullV == [kind |-> "null", message |-> ""]
ResultV == [kind |-> "result", message |-> "200"]
NoExc == [kind |-> "none", message |-> ""]
\* A failure value that is falsy, such as "" or 0, and the error the host
\* capability throws when it cannot start an invocation.
FalsyV == [kind |-> "falsy", message |-> ""]
StartError == ErrorV("nostart")

\* The content of a variable holding null, undefined or a string.
Null == [t |-> "null", s |-> ""]
Undefined == [t |-> "undefined", s |-> ""]
Str(m) == [t |-> "str", s |-> m]

\* e.message: [abrupt |-> TRUE] when the access throws.
GetMessage(e) ==
    IF e.kind = "null" THEN [abrupt |-> TRUE, value |-> Undefined]
    ELSE IF e.kind = "Error" THEN [abrupt |-> FALSE, value |-> Str(e.message)]
    ELSE [abrupt |-> FALSE, value |-> Undefined]

\* ------------------------------------------------------------------ JSON
IsDigit(c) == \E i \in 1..Len(DigitChars) : DigitChars[i] = c
DigitValue(c) == (CHOOSE i \in 1..Len(DigitChars) : DigitChars[i] = c) - 1

RECURSIVE DigitsValue(_)
DigitsValue(s) ==
    IF Len(s) = 0 THEN 0
    ELSE 10 * DigitsValue(SubSeq(s, 1, Len(s) - 1)) + DigitValue(s[Len(s)])

\* A JSON integer literal: digits, no leading zero unless the literal is "0".
IsJSONNumber(s) ==
    /\ Len(s) > 0
    /\ \A i \in 1..Len(s) : IsDigit(s[i])
    /\ (Len(s) > 1 => s[1] # "0")

\* A JSON string literal without escapes: quotes around plain characters.
IsJSONString(s) ==
    /\ Len(s) >= 2
    /\ s[1] = QUOTE /\ s[Len(s)] = QUOTE
    /\ \A i \in 2..(Len(s) - 1) : s[i] # QUOTE /\ s[i] # BSLASH

\* JSON.parse on the documents the host delivers here: an integer literal,
\* a string literal, or anything else, which is a SyntaxError.
JSONparse(resString) ==
    IF IsJSONNumber(resString)
    THEN [ok |-> TRUE, value |-> NumV(DigitsValue(resString))]
    ELSE IF IsJSONString(resString)
    THEN [ok |-> TRUE, value |-> StrV(SubSeq(resString, 2, Len(resString) - 1))]
    ELSE [ok |-> FALSE, value |-> StrV(<<>>)]

RECURSIVE EscapeChars(_)
\* JSON.stringify escapes the quote and the backslash of a string.
EscapeChars(s) ==
    IF Len(s) = 0 THEN <<>>
    ELSE (IF Head(s) = QUOTE \/ Head(s) = BSLASH THEN <<BSLASH, Head(s)>> ELSE <<Head(s)>>)
            \o EscapeChars(Tail(s))

QuoteJSON(s) == <<QUOTE>> \o EscapeChars(s) \o <<QUOTE>>

\* JSON.stringify of one log entry: {"time":<time>,"message":"<message>"}.
StringifyEntry(e) ==
    <<"{", QUOTE, "t", "i", "m", "e", QUOTE, ":">> \o NumberToString(e.time)
        \o <<",", QUOTE, "m", "e", "s", "s", "a", "g", "e", QUOTE, ":">>
        \o QuoteJSON(e.message) \o <<"}">>

RECURSIVE StringifyEntries(_)
StringifyEntries(logs) ==
    IF Len(logs) = 0 THEN <<>>
    ELSE IF Len(logs) = 1 THEN StringifyEntry(logs[1])
    ELSE StringifyEntries(SubSeq(logs, 1, Len(logs) - 1))
            \o <<",">> \o StringifyEntry(logs[Len(logs)])

\* JSON.stringify of the array of log entries.
JSONstringify(logs) == <<"[">> \o StringifyEntries(logs) \o <<"]">>

\* ------------------------------------------------------------ input sets
\* Argument lists of log calls of the script body: a string holding a quote
\* followed by a number (a handler logs the one value delivered to it).
LogArgs == { <<StrV(<<QUOTE>>), NumV(10)>> }

\* Payloads the host delivers: 42, and a document that does not parse.
Payloads == { <<"4", "2">>, <<"{", "o">> }

\* Handlers a script registers; DefaultCallback is function() {} of line 4.
DefaultCallback == "noop"
Handlers == {"h1", "h2"}

\* Values the script body throws.
BodyThrows == {ErrorV("boom"), NonErrorV, NullV}
HandlerError == ErrorV("hfail")
BridgeError == ErrorV("netfail")
SpecError == ErrorV("specfail")

\* ----------------------------------------------------------------- state
VARIABLES
    internalLogs,   \* __internalLogs: sequence of [time, message]
    internalError,  \* __internalError
    callback,       \* __callback: the registered handler
    resumes,        \* the calls of __continuation.resume(), in order
    execs,          \* the PendingExecHandles with their promises
    cur,            \* who holds the thread: "host", "body", "deliver"
    pc,             \* position of the run driver
    bodyWait,       \* the handle the script body awaits (0: none)
    exc,            \* the value the driver's catch block receives
    specState,      \* the promise of jasmine.getEnv().execute()
    driverResult,   \* the promise of the top-level async function
    deliveries,     \* the __doCallback calls with their promises
    dpc,            \* position of the delivery in progress
    hWait,          \* the handle the current handler awaits (0: none)
    hexc,           \* what the current handler raised (NoExc: nothing)
    hist            \* history: what happened, for stating properties

vars == <<internalLogs, internalError, callback, resumes, execs, cur, pc,
          bodyWait, exc, specState, driverResult, deliveries, dpc, hWait,
          hexc, hist>>

\* What the host passed to the onComplete callback of a handle the first
\* time it called it (history); StartFailed: __exec.exec itself threw.
NoReport == [called |-> FALSE, result |-> NoExc, error |-> NoExc]
Report(result, error) == [called |-> TRUE, result |-> result, error |-> error]
StartFailed == [called |-> FALSE, result |-> NoExc, error |-> StartError]

\* No document returned by __getInternalLogs since the last log call.
NoDoc == <<>>

RunTag == [by |-> "run", d |-> 0]
DeliverTag(d) == [by |-> "deliver", d |-> d]

LastTime == IF Len(internalLogs) = 0 THEN 0 ELSE internalLogs[Len(internalLogs)].time
\* The delivery in progress, when dpc # "idle".
CurD == Len(deliveries)

Init ==
    /\ internalLogs = <<>>
    /\ internalError = Null
    /\ callback = DefaultCallback
    /\ resumes = <<>>
    /\ execs = <<>>
    /\ cur = "body"
    /\ pc = "script"
    /\ bodyWait = 0
    /\ exc = NoExc
    /\ specState = "notStarted"
    /\ driverResult = "pending"
    /\ deliveries = <<>>
    /\ dpc = "idle"
    /\ hWait = 0
    /\ hexc = NoExc
    /\ hist = [logCalls |-> <<>>, bodyOutcome |-> "running",
               bodySuspended |-> FALSE, thrown |-> NoExc,
               logsAtThrow |-> <<>>, handledReject |-> FALSE,
               lastRegistered |-> DefaultCallback, reported |-> <<>>,
               recompleted |-> FALSE, lastDoc |-> NoDoc]

\* ------------------------------------------------- harness functions
\* Mutant of registerCallback: a handler already registered is kept.
registerCallbackKeepsFirst(h) == IF callback = DefaultCallback THEN h ELSE callback

\* registerCallback(callback)
registerCallback(h) == h

\* Mutant of log: the entry is put in front (unshift for push).
logUnshift(logs, time, messages) ==
    <<[time |-> time, message |-> join(messages, SP)]>> \o logs

\* log(...messages) at clock reading time: the buffer after the push.
log(logs, time, messages) ==
    Append(logs, [time |-> time, message |-> join(messages, SP)])

\* __getInternalLogs()
getInternalLogs == JSONstringify(internalLogs)

\* exec(requestId, envName): a new handle with a pending promise.
exec(handles) == Append(handles, [state |-> "pending", value |-> NoExc])

\* if (error): null and undefined are falsy, and so are "" and 0.
Truthy(v) == v.kind \notin {"null", "falsy"}

\* exec(requestId, envName) when __exec.exec throws inside the promise
\* executor: the promise constructor turns the throw into a rejection.
execThrows(handles, e) == Append(handles, [state |-> "rejected", value |-> e])

\* Mutant of onComplete: a later call of the callback settles the promise
\* again.
onCompleteResettles(p, result, error) ==
    IF Truthy(error) THEN [state |-> "rejected", value |-> error]
    ELSE [state |-> "resolved", value |-> result]

\* Mutant of onComplete: the failure is wrapped instead of passed on.
onCompleteWraps(p, result, error) ==
    IF p.state # "pending" THEN p
    ELSE IF Truthy(error) THEN [state |-> "rejected", value |-> ErrorV("wrapped")]
    ELSE [state |-> "resolved", value |-> result]

\* The onComplete callback of exec: if (error) reject(error) else
\* resolve(result); a promise that is already settled stays as it is.
onComplete(p, result, error) ==
    IF p.state # "pending" THEN p
    ELSE IF Truthy(error) THEN [state |-> "rejected", value |-> error]
    ELSE [state |-> "resolved", value |-> result]

Settled(h) == h \in 1..Len(execs) /\ execs[h].state # "pending"

\* The call of log from whoever holds the thread.
DoLog(who, args, t) ==
    /\ Len(hist.logCalls) < MaxLogs
    /\ internalLogs' = log(internalLogs, t, args)
    /\ hist' = [hist EXCEPT
                  !.logCalls = Append(@, [who |-> who, args |-> args, time |-> t]),
                  !.lastDoc = NoDoc]

\* ------------------------------------------------------ the script body
BodyRuns == cur = "body" /\ pc = "script"

BodyLog(args, t) ==
    /\ BodyRuns
    /\ DoLog("body", args, t)
    /\ UNCHANGED <<internalError, callback, resumes, execs, cur, pc, bodyWait,
                   exc, specState, driverResult, deliveries, dpc, hWait, hexc>>

BodyRegister(h) ==
    /\ BodyRuns
    /\ callback' = registerCallback(h)
    /\ hist' = [hist EXCEPT !.lastRegistered = h]
    /\ UNCHANGED <<internalLogs, internalError, resumes, execs, cur, pc,
                   bodyWait, exc, specState, driverResult, deliveries, dpc,
                   hWait, hexc>>

\* The body calls exec(...) and keeps the promise.
BodyExec ==
    /\ BodyRuns
    /\ Len(execs) < MaxExec
    /\ execs' = exec(execs)
    /\ hist' = [hist EXCEPT !.reported = Append(@, NoReport)]
    /\ UNCHANGED <<internalLogs, internalError, callback, resumes, cur, pc,
                   bodyWait, exc, specState, driverResult, deliveries, dpc,
                   hWait, hexc>>

\* Mutant of BodyAwait: the bridge hands off to the host on suspension.
BodyAwaitHandoff(h) ==
    /\ BodyRuns
    /\ h \in 1..Len(execs)
    /\ pc' = "awaitExec"
    /\ bodyWait' = h
    /\ cur' = "host"
    /\ resumes' = Append(resumes, [by |-> "exec", d |-> h])
    /\ hist' = [hist EXCEPT !.bodySuspended = TRUE]
    /\ UNCHANGED <<internalLogs, internalError, callback, execs, exc,
                   specState, driverResult, deliveries, dpc, hWait, hexc>>

\* The body awaits the promise of handle h: it suspends, and exec issues
\* no handoff.
BodyAwait(h) ==
    /\ BodyRuns
    /\ h \in 1..Len(execs)
    /\ pc' = "awaitExec"
    /\ bodyWait' = h
    /\ cur' = "host"
    /\ hist' = [hist EXCEPT !.bodySuspended = TRUE]
    /\ UNCHANGED <<internalLogs, internalError, callback, resumes, execs, exc,
                   specState, driverResult, deliveries, dpc, hWait, hexc>>

\* Mutant of BodyResume: the bridge records every rejection in
\* __internalError, also one the script goes on to handle.
BodyResumeRecords(handled) ==
    /\ cur = "host" /\ pc = "awaitExec" /\ Settled(bodyWait)
    /\ cur' = "body"
    /\ bodyWait' = 0
    /\ IF execs[bodyWait].state = "resolved"
       THEN /\ handled = FALSE
            /\ pc' = "script" /\ exc' = exc /\ hist' = hist
            /\ internalError' = internalError
       ELSE IF handled
       THEN /\ pc' = "script" /\ exc' = exc
            /\ hist' = [hist EXCEPT !.handledReject = TRUE]
            /\ internalError' = GetMessage(execs[bodyWait].value).value
       ELSE /\ pc' = "catch" /\ exc' = execs[bodyWait].value
            /\ hist' = [hist EXCEPT !.bodyOutcome = "threwAsync",
                                    !.thrown = execs[bodyWait].value,
                                    !.logsAtThrow = internalLogs]
            /\ internalError' = internalError
    /\ UNCHANGED <<internalLogs, callback, resumes, execs,
                   specState, driverResult, deliveries, dpc, hWait, hexc>>

\* Mutant of BodyResume: the bridge gives up on an invocation the host has
\* not completed and rejects the await with a timeout.
BodyResumeTimesOut(handled) ==
    /\ cur = "host" /\ pc = "awaitExec"
    /\ cur' = "body"
    /\ bodyWait' = 0
    /\ IF ~Settled(bodyWait)
       THEN /\ handled = FALSE
            /\ pc' = "catch" /\ exc' = ErrorV("timeout")
            /\ hist' = [hist EXCEPT !.bodyOutcome = "threwAsync",
                                    !.thrown = ErrorV("timeout"),
                                    !.logsAtThrow = internalLogs]
       ELSE IF execs[bodyWait].state = "resolved"
       THEN /\ handled = FALSE
            /\ pc' = "script" /\ exc' = exc /\ hist' = hist
       ELSE IF handled
       THEN /\ pc' = "script" /\ exc' = exc
            /\ hist' = [hist EXCEPT !.handledReject = TRUE]
       ELSE /\ pc' = "catch" /\ exc' = execs[bodyWait].value
            /\ hist' = [hist EXCEPT !.bodyOutcome = "threwAsync",
                                    !.thrown = execs[bodyWait].value,
                                    !.logsAtThrow = internalLogs]
    /\ UNCHANGED <<internalLogs, internalError, callback, resumes, execs,
                   specState, driverResult, deliveries, dpc, hWait, hexc>>

\* The awaited promise has settled and the thread is free: the body goes
\* on.  A rejection is handled by the script's own try/catch (handled) or
\* reaches the catch block of the run driver.
BodyResume(handled) ==
    /\ cur = "host" /\ pc = "awaitExec" /\ Settled(bodyWait)
    /\ cur' = "body"
    /\ bodyWait' = 0
    /\ IF execs[bodyWait].state = "resolved"
       THEN /\ handled = FALSE
            /\ pc' = "script" /\ exc' = exc /\ hist' = hist
       ELSE IF handled
       THEN /\ pc' = "script" /\ exc' = exc
            /\ hist' = [hist EXCEPT !.handledReject = TRUE]
       ELSE /\ pc' = "catch" /\ exc' = execs[bodyWait].value
            /\ hist' = [hist EXCEPT !.bodyOutcome = "threwAsync",
                                    !.thrown = execs[bodyWait].value,
                                    !.logsAtThrow = internalLogs]
    /\ UNCHANGED <<internalLogs, internalError, callback, resumes, execs,
                   specState, driverResult, deliveries, dpc, hWait, hexc>>

\* The body throws v: synchronously when it has not suspended before.
BodyThrow(v) ==
    /\ BodyRuns
    /\ pc' = "catch"
    /\ exc' = v
    /\ hist' = [hist EXCEPT
                  !.bodyOutcome = IF hist.bodySuspended THEN "threwAsync" ELSE "threwSync",
                  !.thrown = v,
                  !.logsAtThrow = internalLogs]
    /\ UNCHANGED <<internalLogs, internalError, callback, resumes, execs, cur,
                   bodyWait, specState, driverResult, deliveries, dpc, hWait, hexc>>

\* ------------------------------------------------------- the run driver
\* Mutant of DriverExecute: execute() is called without await.
DriverExecuteNoAwait ==
    /\ BodyRuns
    /\ pc' = "finally"
    /\ specState' = "pending"
    /\ hist' = [hist EXCEPT !.bodyOutcome = "ok"]
    /\ UNCHANGED <<internalLogs, internalError, callback, resumes, execs, cur,
                   bodyWait, exc, driverResult, deliveries, dpc, hWait, hexc>>

\* The body ends; line 48 starts the jasmine run and awaits it.
DriverExecute ==
    /\ BodyRuns
    /\ pc' = "awaitSpec"
    /\ specState' = "pending"
    /\ cur' = "host"
    /\ hist' = [hist EXCEPT !.bodyOutcome = "ok"]
    /\ UNCHANGED <<internalLogs, internalError, callback, resumes, execs,
                   bodyWait, exc, driverResult, deliveries, dpc, hWait, hexc>>

\* jasmine settles the promise of execute().
SpecSettle(ok) ==
    /\ cur = "host" /\ specState = "pending"
    /\ specState' = IF ok THEN "resolved" ELSE "rejected"
    /\ UNCHANGED <<internalLogs, internalError, callback, resumes, execs, cur,
                   pc, bodyWait, exc, driverResult, deliveries, dpc, hWait,
                   hexc, hist>>

\* The await of line 48 returns or throws.
DriverResume ==
    /\ cur = "host" /\ pc = "awaitSpec" /\ specState \in {"resolved", "rejected"}
    /\ cur' = "body"
    /\ IF specState = "resolved"
       THEN pc' = "finally" /\ exc' = exc
       ELSE pc' = "catch" /\ exc' = SpecError
    /\ UNCHANGED <<internalLogs, internalError, callback, resumes, execs,
                   bodyWait, specState, driverResult, deliveries, dpc, hWait,
                   hexc, hist>>

\* Mutant of DriverCatch: resume() sits after the try statement instead of
\* in a finally block, so an exception leaving the catch block skips it.
DriverCatchSkipsResume ==
    /\ cur = "body" /\ pc = "catch"
    /\ LET m == GetMessage(exc) IN
        IF m.abrupt
        THEN /\ internalError' = internalError /\ exc' = ErrorV("TypeError")
             /\ pc' = "completed" /\ driverResult' = "rejected" /\ cur' = "host"
        ELSE /\ internalError' = m.value /\ exc' = NoExc
             /\ pc' = "finally" /\ driverResult' = driverResult /\ cur' = cur
    /\ UNCHANGED <<internalLogs, callback, resumes, execs, bodyWait,
                   specState, deliveries, dpc, hWait, hexc, hist>>

\* Mutant of DriverCatch: the catch block reads a field the error lacks.
DriverCatchWrongField ==
    /\ cur = "body" /\ pc = "catch"
    /\ internalError' = Undefined
    /\ exc' = NoExc
    /\ pc' = "finally"
    /\ UNCHANGED <<internalLogs, callback, resumes, execs, cur, bodyWait,
                   specState, driverResult, deliveries, dpc, hWait, hexc, hist>>

\* catch (e) { __internalError = e.message; }: when e.message throws, the
\* assignment does not happen and the TypeError leaves the catch block.
DriverCatch ==
    /\ cur = "body" /\ pc = "catch"
    /\ LET m == GetMessage(exc) IN
        IF m.abrupt
        THEN internalError' = internalError /\ exc' = ErrorV("TypeError")
        ELSE internalError' = m.value /\ exc' = NoExc
    /\ pc' = "finally"
    /\ UNCHANGED <<internalLogs, callback, resumes, execs, cur, bodyWait,
                   specState, driverResult, deliveries, dpc, hWait, hexc, hist>>

\* finally { __continuation.resume(); } and the end of the async function:
\* its promise rejects when an exception is still on its way out.
DriverFinally ==
    /\ cur = "body" /\ pc = "finally"
    /\ resumes' = Append(resumes, RunTag)
    /\ pc' = "completed"
    /\ driverResult' = IF exc = NoExc THEN "fulfilled" ELSE "rejected"
    /\ cur' = "host"
    /\ UNCHANGED <<internalLogs, internalError, callback, execs, bodyWait, exc,
                   specState, deliveries, dpc, hWait, hexc, hist>>

\* ------------------------------------------------------------- the host
\* Mutant of HostComplete: the completion callbacks share one promise, so a
\* completion settles every invocation that is outstanding.
HostCompleteShared(h, result, error) ==
    /\ cur = "host"
    /\ h \in 1..Len(execs) /\ execs[h].state = "pending"
    /\ execs' = [k \in 1..Len(execs) |-> onComplete(execs[k], result, error)]
    /\ hist' = [hist EXCEPT !.reported[h] = Report(result, error)]
    /\ UNCHANGED <<internalLogs, internalError, callback, resumes, cur, pc,
                   bodyWait, exc, specState, driverResult, deliveries, dpc,
                   hWait, hexc>>

\* The host completes handle h through the callback given to onComplete.
HostComplete(h, result, error) ==
    /\ cur = "host"
    /\ h \in 1..Len(execs) /\ execs[h].state = "pending"
    /\ execs' = [execs EXCEPT ![h] = onComplete(@, result, error)]
    /\ hist' = [hist EXCEPT !.reported[h] = Report(result, error)]
    /\ UNCHANGED <<internalLogs, internalError, callback, resumes, cur, pc,
                   bodyWait, exc, specState, driverResult, deliveries, dpc,
                   hWait, hexc>>

\* The host calls the onComplete callback of a handle it has completed
\* before, with other arguments than the first time.
HostCompleteAgain(h, result, error) ==
    /\ cur = "host"
    /\ h \in 1..Len(execs) /\ hist.reported[h].called
    /\ Report(result, error) # hist.reported[h]
    /\ execs' = [execs EXCEPT ![h] = onComplete(@, result, error)]
    /\ hist' = [hist EXCEPT !.recompleted = TRUE]
    /\ UNCHANGED <<internalLogs, internalError, callback, resumes, cur, pc,
                   bodyWait, exc, specState, driverResult, deliveries, dpc,
                   hWait, hexc>>

\* The body calls exec(...) and __exec.exec throws: the body gets a
\* rejected promise and goes on.
BodyExecThrows ==
    /\ BodyRuns
    /\ Len(execs) < MaxExec
    /\ execs' = execThrows(execs, StartError)
    /\ hist' = [hist EXCEPT !.reported = Append(@, StartFailed)]
    /\ UNCHANGED <<internalLogs, internalError, callback, resumes, cur, pc,
                   bodyWait, exc, specState, driverResult, deliveries, dpc,
                   hWait, hexc>>

\* Mutant of GetInternalLogs: serializing empties the buffer.
GetInternalLogsDrains ==
    /\ cur = "host"
    /\ internalLogs' = <<>>
    /\ hist' = [hist EXCEPT !.lastDoc = getInternalLogs]
    /\ UNCHANGED <<internalError, callback, resumes, execs, cur, pc,
                   bodyWait, exc, specState, driverResult, deliveries, dpc,
                   hWait, hexc>>

\* The host calls __getInternalLogs() and keeps the document.
GetInternalLogs ==
    /\ cur = "host"
    /\ hist' = [hist EXCEPT !.lastDoc = getInternalLogs]
    /\ UNCHANGED <<internalLogs, internalError, callback, resumes, execs, cur,
                   pc, bodyWait, exc, specState, driverResult, deliveries, dpc,
                   hWait, hexc>>

\* -------------------------------------------------------- __doCallback
\* Mutant of doCallback: a payload that does not parse is dropped, the
\* call completing normally without a handoff.
doCallbackSwallows(resString) ==
    /\ cur = "host" /\ dpc = "idle"
    /\ Len(deliveries) < MaxDeliver
    /\ LET res == JSONparse(resString)
           call == [payload |-> resString, ok |-> res.ok, arg |-> res.value,
                    handler |-> "none", hstate |-> "notInvoked",
                    suspended |-> FALSE, result |-> "pending"]
       IN
        IF ~res.ok
        THEN /\ deliveries' = Append(deliveries, [call EXCEPT !.result = "fulfilled"])
             /\ dpc' = dpc /\ cur' = cur
        ELSE IF callback = DefaultCallback
        THEN /\ deliveries' = Append(deliveries,
                    [call EXCEPT !.handler = callback, !.hstate = "returned"])
             /\ dpc' = "awaitHandler" /\ cur' = cur
        ELSE /\ deliveries' = Append(deliveries,
                    [call EXCEPT !.handler = callback, !.hstate = "running"])
             /\ dpc' = "handler" /\ cur' = "deliver"
    /\ UNCHANGED <<internalLogs, internalError, callback, resumes, execs, pc,
                   bodyWait, exc, specState, driverResult, hWait, hexc, hist>>

\* Mutant of doCallback: JSON.parse sits inside the try block, so a payload
\* that does not parse still reaches the finally block and its resume().
doCallbackParsesInTry(resString) ==
    /\ cur = "host" /\ dpc = "idle"
    /\ Len(deliveries) < MaxDeliver
    /\ LET res == JSONparse(resString)
           call == [payload |-> resString, ok |-> res.ok, arg |-> res.value,
                    handler |-> "none", hstate |-> "notInvoked",
                    suspended |-> FALSE, result |-> "pending"]
       IN
        IF ~res.ok
        THEN /\ deliveries' = Append(deliveries, [call EXCEPT !.result = "rejected"])
             /\ dpc' = dpc /\ cur' = cur
             /\ resumes' = Append(resumes, DeliverTag(Len(deliveries) + 1))
        ELSE IF callback = DefaultCallback
        THEN /\ deliveries' = Append(deliveries,
                    [call EXCEPT !.handler = callback, !.hstate = "returned"])
             /\ dpc' = "awaitHandler" /\ cur' = cur
             /\ resumes' = resumes
        ELSE /\ deliveries' = Append(deliveries,
                    [call EXCEPT !.handler = callback, !.hstate = "running"])
             /\ dpc' = "handler" /\ cur' = "deliver"
             /\ resumes' = resumes
    /\ UNCHANGED <<internalLogs, internalError, callback, execs, pc,
                   bodyWait, exc, specState, driverResult, hWait, hexc, hist>>

\* The host calls __doCallback(resString).  JSON.parse runs before the try
\* block: when it throws, the async function returns a rejected promise and
\* nothing else happens.  Otherwise __callback(res) is called: the default
\* handler returns at once and the await of its result is left pending;
\* a registered handler starts running.
doCallback(resString) ==
    /\ cur = "host" /\ dpc = "idle"
    /\ Len(deliveries) < MaxDeliver
    /\ LET res == JSONparse(resString)
           call == [payload |-> resString, ok |-> res.ok, arg |-> res.value,
                    handler |-> "none", hstate |-> "notInvoked",
                    suspended |-> FALSE, result |-> "pending"]
       IN
        IF ~res.ok
        THEN /\ deliveries' = Append(deliveries, [call EXCEPT !.result = "rejected"])
             /\ dpc' = dpc /\ cur' = cur
        ELSE IF callback = DefaultCallback
        THEN /\ deliveries' = Append(deliveries,
                    [call EXCEPT !.handler = callback, !.hstate = "returned"])
             /\ dpc' = "awaitHandler" /\ cur' = cur
        ELSE /\ deliveries' = Append(deliveries,
                    [call EXCEPT !.handler = callback, !.hstate = "running"])
             /\ dpc' = "handler" /\ cur' = "deliver"
    /\ UNCHANGED <<internalLogs, internalError, callback, resumes, execs, pc,
                   bodyWait, exc, specState, driverResult, hWait, hexc, hist>>

HandlerRuns == cur = "deliver" /\ dpc = "handler"

\* The handler logs the value it was given.
HandlerLog(t) ==
    /\ HandlerRuns
    /\ DoLog("handler", <<deliveries[CurD].arg>>, t)
    /\ UNCHANGED <<internalError, callback, resumes, execs, cur, pc, bodyWait,
                   exc, specState, driverResult, deliveries, dpc, hWait, hexc>>

\* Mutant of HandlerRegister: the delivery in progress re-reads __callback,
\* so the handler registered meanwhile takes the delivery over.
HandlerRegisterSwitches(h) ==
    /\ HandlerRuns
    /\ callback' = registerCallback(h)
    /\ deliveries' = [deliveries EXCEPT ![CurD].handler = h]
    /\ hist' = [hist EXCEPT !.lastRegistered = h]
    /\ UNCHANGED <<internalLogs, internalError, resumes, execs, cur, pc,
                   bodyWait, exc, specState, driverResult, dpc,
                   hWait, hexc>>

\* The handler registers a handler.
HandlerRegister(h) ==
    /\ HandlerRuns
    /\ callback' = registerCallback(h)
    /\ hist' = [hist EXCEPT !.lastRegistered = h]
    /\ UNCHANGED <<internalLogs, internalError, resumes, execs, cur, pc,
                   bodyWait, exc, specState, driverResult, deliveries, dpc,
                   hWait, hexc>>

\* The handler does await exec(...): it suspends on a new handle.
HandlerExec ==
    /\ HandlerRuns
    /\ Len(execs) < MaxExec
    /\ execs' = exec(execs)
    /\ hWait' = Len(execs) + 1
    /\ dpc' = "suspended"
    /\ cur' = "host"
    /\ deliveries' = [deliveries EXCEPT ![CurD].hstate = "suspended",
                                        ![CurD].suspended = TRUE]
    /\ hist' = [hist EXCEPT !.reported = Append(@, NoReport)]
    /\ UNCHANGED <<internalLogs, internalError, callback, resumes, pc,
                   bodyWait, exc, specState, driverResult, hexc>>

\* The handle the handler awaits has settled: the handler goes on, or, on
\* a rejection it does not handle, its promise rejects with that value.
HandlerResume(handled) ==
    /\ cur = "host" /\ dpc = "suspended" /\ Settled(hWait)
    /\ hWait' = 0
    /\ IF execs[hWait].state = "resolved" \/ handled
       THEN /\ (execs[hWait].state = "resolved" => handled = FALSE)
            /\ dpc' = "handler" /\ cur' = "deliver" /\ hexc' = hexc
            /\ deliveries' = [deliveries EXCEPT ![CurD].hstate = "running"]
       ELSE /\ dpc' = "awaitHandler" /\ cur' = cur
            /\ hexc' = execs[hWait].value
            /\ deliveries' = [deliveries EXCEPT ![CurD].hstate = "threw"]
    /\ UNCHANGED <<internalLogs, internalError, callback, resumes, execs, pc,
                   bodyWait, exc, specState, driverResult, hist>>

\* The handler throws.  A plain function that has not suspended throws into
\* the try block, which goes to finally at once; an async handler rejects
\* its promise, which the await of line 13 throws one turn later.
HandlerThrow(async) ==
    /\ HandlerRuns
    /\ (deliveries[CurD].suspended => async)
    /\ hexc' = HandlerError
    /\ deliveries' = [deliveries EXCEPT ![CurD].hstate = "threw"]
    /\ IF async THEN dpc' = "awaitHandler" /\ cur' = "host"
                ELSE dpc' = "finally" /\ cur' = cur
    /\ UNCHANGED <<internalLogs, internalError, callback, resumes, execs, pc,
                   bodyWait, exc, specState, driverResult, hWait, hist>>

\* The handler returns; the await of line 13 yields the thread.
HandlerReturn ==
    /\ HandlerRuns
    /\ deliveries' = [deliveries EXCEPT ![CurD].hstate = "returned"]
    /\ dpc' = "awaitHandler"
    /\ cur' = "host"
    /\ UNCHANGED <<internalLogs, internalError, callback, resumes, execs, pc,
                   bodyWait, exc, specState, driverResult, hWait, hexc, hist>>

\* The await of line 13 is over: __doCallback goes on to its finally block.
DeliverContinue ==
    /\ cur = "host" /\ dpc = "awaitHandler"
    /\ dpc' = "finally"
    /\ cur' = "deliver"
    /\ UNCHANGED <<internalLogs, internalError, callback, resumes, execs, pc,
                   bodyWait, exc, specState, driverResult, deliveries, hWait,
                   hexc, hist>>

\* Mutant of DeliverFinally: resume() follows the await inside the try
\* block, so a handler that raises gets no handoff.
DeliverResumeInTry ==
    /\ cur = "deliver" /\ dpc = "finally"
    /\ resumes' = IF hexc = NoExc THEN Append(resumes, DeliverTag(CurD)) ELSE resumes
    /\ deliveries' = [deliveries EXCEPT
            ![CurD].result = IF hexc = NoExc THEN "fulfilled" ELSE "rejected",
            ![CurD].suspended = FALSE]
    /\ dpc' = "idle"
    /\ hexc' = NoExc
    /\ cur' = "host"
    /\ UNCHANGED <<internalLogs, internalError, callback, execs, pc, bodyWait,
                   exc, specState, driverResult, hWait, hist>>

\* Mutant of DeliverFinally: __doCallback gets a catch block that stores the
\* message of what the handler raised in __internalError.
DeliverCapturesError ==
    /\ cur = "deliver" /\ dpc = "finally"
    /\ resumes' = Append(resumes, DeliverTag(CurD))
    /\ internalError' = IF hexc = NoExc THEN internalError ELSE GetMessage(hexc).value
    /\ deliveries' = [deliveries EXCEPT ![CurD].result = "fulfilled",
                                        ![CurD].suspended = FALSE]
    /\ dpc' = "idle"
    /\ hexc' = NoExc
    /\ cur' = "host"
    /\ UNCHANGED <<internalLogs, callback, execs, pc, bodyWait,
                   exc, specState, driverResult, hWait, hist>>

\* finally { __continuation.resume(); } of __doCallback and the end of the
\* async function: there is no catch, so what the handler raised rejects
\* the promise __doCallback returned.
DeliverFinally ==
    /\ cur = "deliver" /\ dpc = "finally"
    /\ resumes' = Append(resumes, DeliverTag(CurD))
    /\ deliveries' = [deliveries EXCEPT
            ![CurD].result = IF hexc = NoExc THEN "fulfilled" ELSE "rejected",
            ![CurD].suspended = FALSE]
    /\ dpc' = "idle"
    /\ hexc' = NoExc
    /\ cur' = "host"
    /\ UNCHANGED <<internalLogs, internalError, callback, execs, pc, bodyWait,
                   exc, specState, driverResult, hWait, hist>>

\* ---------------------------------------------------------- specification
Next ==
    \/ \E args \in LogArgs, t \in LastTime..MaxTime : BodyLog(args, t)
    \/ \E h \in Handlers : BodyRegister(h)
    \/ BodyExec
    \/ \E h \in 1..MaxExec : BodyAwait(h)
    \/ \E handled \in BOOLEAN : BodyResume(handled)
    \/ \E v \in BodyThrows : BodyThrow(v)
    \/ DriverExecute
    \/ \E ok \in BOOLEAN : SpecSettle(ok)
    \/ DriverResume
    \/ DriverCatch
    \/ DriverFinally
    \/ \E h \in 1..MaxExec : HostComplete(h, ResultV, NullV)
    \/ \E h \in 1..MaxExec : HostComplete(h, NullV, BridgeError)
    \/ \E p \in Payloads : doCallback(p)
    \/ \E t \in LastTime..MaxTime : HandlerLog(t)
    \/ \E h \in Handlers : HandlerRegister(h)
    \/ HandlerExec
    \/ \E handled \in BOOLEAN : HandlerResume(handled)
    \/ \E async \in BOOLEAN : HandlerThrow(async)
    \/ HandlerReturn
    \/ DeliverContinue
    \/ DeliverFinally

Spec == Init /\ [][Next]_vars

\* A continuation that is ready runs once the thread is free: the job queue
\* of the engine is served in turn.
Continue ==
    \/ \E handled \in BOOLEAN : BodyResume(handled)
    \/ DriverResume
    \/ DeliverContinue
    \/ \E handled \in BOOLEAN : HandlerResume(handled)

\* The code of the run driver after the body, and of __doCallback after the
\* handler, runs to its end.
DriverEnds == DriverCatch \/ DriverFinally
DeliverEnds == DeliverFinally

\* The host settles what the script body awaits: the invocation the body is
\* suspended on, and the jasmine run.
HostSettlesAwaited ==
    \/ pc = "awaitExec" /\ HostComplete(bodyWait, ResultV, NullV)
    \/ pc = "awaitExec" /\ HostComplete(bodyWait, NullV, BridgeError)
    \/ \E ok \in BOOLEAN : SpecSettle(ok)

\* The script body and a handler are finite pieces of code: they end, by
\* reaching their last statement or by throwing.
BodyEnds == DriverExecute \/ \E v \in BodyThrows : BodyThrow(v)
HandlerEnds == HandlerReturn \/ \E async \in BOOLEAN : HandlerThrow(async)

Fairness ==
    /\ WF_vars(Continue)
    /\ WF_vars(DriverEnds)
    /\ WF_vars(DeliverEnds)
    /\ WF_vars(HostSettlesAwaited)
    /\ SF_vars(BodyEnds)
    /\ SF_vars(HandlerEnds)

\* The harness under fair scheduling, with a host that settles everything
\* the script body awaits.
SpecFair == Init /\ [][Next]_vars /\ Fairness

\* The harness with a host that also reads the logs at any free moment.
NextLogs ==
    \/ Next
    \/ GetInternalLogs

SpecLogs == Init /\ [][NextLogs]_vars

\* The harness with a host that also reports failure values that are falsy.
NextFalsy ==
    \/ Next
    \/ \E h \in 1..MaxExec : HostComplete(h, NullV, FalsyV)

SpecFalsy == Init /\ [][NextFalsy]_vars

\* The harness with a host capability that goes beyond its contract: it
\* calls a completion callback again, and throws when asked to start an
\* invocation.
NextHost ==
    \/ Next
    \/ \E h \in 1..MaxExec : HostCompleteAgain(h, ResultV, NullV)
    \/ \E h \in 1..MaxExec : HostCompleteAgain(h, NullV, BridgeError)
    \/ BodyExecThrows

SpecHost == Init /\ [][NextHost]_vars

\* ------------------------------------------------------------ properties
\* The resume() calls of the run driver, and those of delivery d.
RunResumes == Cardinality({i \in 1..Len(resumes) : resumes[i].by = "run"})
DeliverResumes(d) == Cardinality({i \in 1..Len(resumes) : resumes[i] = DeliverTag(d)})

\* The run failed: the body threw or the jasmine run rejected.
RunFailed ==
    \/ hist.bodyOutcome \in {"threwSync", "threwAsync"}
    \/ specState = "rejected"

\* A continuation is ready to run as soon as the thread is free.
Runnable ==
    \/ pc = "awaitExec" /\ Settled(bodyWait)
    \/ pc = "awaitSpec" /\ specState \in {"resolved", "rejected"}
    \/ dpc = "suspended" /\ Settled(hWait)
    \/ dpc = "awaitHandler"

\* The script environment has no more synchronous work to do.
Idle == cur = "host" /\ ~Runnable

IsPrefix(s, t) == Len(s) <= Len(t) /\ SubSeq(t, 1, Len(s)) = s

\* C1: the run driver has called resume() exactly once when it has
\* terminated, whatever the outcome, and not at all before: the call is the
\* step that ends the run.
C1_ResumeOnceAtEnd == RunResumes = (IF pc = "completed" THEN 1 ELSE 0)

\* C1 witness: a run that ended after the body failed following a
\* suspension and the catch block itself threw.
C1_Witness ==
    /\ pc = "completed" /\ RunResumes = 1
    /\ hist.bodyOutcome = "threwAsync" /\ driverResult = "rejected"

\* C2 as stated: every deliver call that is over has exactly one resume(),
\* issued after its handler completed.
C2_Original ==
    \A d \in 1..Len(deliveries) :
        /\ DeliverResumes(d) = (IF deliveries[d].result = "pending" THEN 0 ELSE 1)
        /\ (DeliverResumes(d) = 1 => deliveries[d].hstate \in {"returned", "threw"})

\* C2 amended: every deliver call whose payload parses has exactly one
\* resume() once it is over and none before, and the resume() comes only
\* after its handler has returned or raised.
C2_ResumePerParsedDelivery ==
    \A d \in 1..Len(deliveries) :
        deliveries[d].ok =>
            /\ DeliverResumes(d) = (IF deliveries[d].result = "pending" THEN 0 ELSE 1)
            /\ (DeliverResumes(d) = 1 => deliveries[d].hstate \in {"returned", "threw"})

\* C2 witness: a delivery whose registered handler raised has its resume().
C2_Witness ==
    \E d \in 1..Len(deliveries) :
        /\ deliveries[d].ok /\ deliveries[d].handler \in Handlers
        /\ deliveries[d].hstate = "threw" /\ deliveries[d].result = "rejected"
        /\ DeliverResumes(d) = 1

\* C3: a deliver call whose payload does not parse never invokes a handler,
\* and it either gets exactly one handoff or fails towards its caller.
C3_MalformedNotDropped ==
    \A d \in 1..Len(deliveries) :
        ~deliveries[d].ok =>
            /\ deliveries[d].handler = "none"
            /\ deliveries[d].hstate = "notInvoked"
            /\ (DeliverResumes(d) = 1 \/ deliveries[d].result = "rejected")

\* C3 witness: a malformed payload was delivered while a handler was
\* registered, and the call failed.
C3_Witness ==
    \E d \in 1..Len(deliveries) :
        /\ ~deliveries[d].ok /\ deliveries[d].result = "rejected"
        /\ callback \in Handlers

\* C4 as stated: the run driver's resume() is the last resume() ever issued.
C4_CompletedTerminal ==
    \A i \in 1..Len(resumes) : resumes[i].by = "run" => i = Len(resumes)

\* C5 as stated: every step that leaves the script environment without
\* synchronous work issues a resume().
C5_Original ==
    [][(~Idle /\ Idle') => Len(resumes') = Len(resumes) + 1]_vars

\* C5 amended: resume() is called only by the step that ends a delivery and
\* by the step that ends the run; a step that suspends the body or a
\* handler on a bridge invocation calls none.
C5_HandoffPoints ==
    [][ /\ (resumes' # resumes =>
              \/ pc = "finally" /\ pc' = "completed"
                    /\ resumes' = Append(resumes, RunTag)
              \/ dpc = "finally" /\ dpc' = "idle"
                    /\ resumes' = Append(resumes, DeliverTag(CurD)))
        /\ ((pc # "awaitExec" /\ pc' = "awaitExec") => resumes' = resumes)
        /\ ((dpc # "suspended" /\ dpc' = "suspended") => resumes' = resumes)
      ]_vars

\* C5 witness: the body is suspended on a pending bridge invocation, nothing
\* else can run, and no resume() has been issued.
C5_Witness ==
    /\ Idle /\ pc = "awaitExec" /\ ~Settled(bodyWait)
    /\ resumes = <<>>

\* C6 as stated: after a failed run, ErrorSlot holds a message and the run
\* driver's own completion did not fail.
C6_FailureCaptured ==
    (pc = "completed" /\ RunFailed) =>
        internalError.t = "str" /\ driverResult = "fulfilled"

\* C7: after a body that threw an Error with message m synchronously, from
\* the final handoff on ErrorSlot is m and the log buffer starts with the
\* entries logged before the throw.
C7_SyncThrowCaptured ==
    (pc = "completed" /\ hist.bodyOutcome = "threwSync" /\ hist.thrown.kind = "Error") =>
        /\ internalError = Str(hist.thrown.message)
        /\ IsPrefix(hist.logsAtThrow, internalLogs)

\* C7 witness: the body logged twice, threw an Error, and the run ended.
C7_Witness ==
    /\ pc = "completed" /\ hist.bodyOutcome = "threwSync"
    /\ hist.thrown.kind = "Error"
    /\ Len(hist.logsAtThrow) >= 2
    /\ internalError = Str("boom")

\* C8 as stated: no deliver call ends as a failed completion.
C8_NoEscape ==
    \A d \in 1..Len(deliveries) : deliveries[d].result # "rejected"

\* C9: after a run whose body and jasmine run both completed normally,
\* ErrorSlot is empty.
C9_ErrorOnlyOnFailure ==
    (pc = "completed" /\ hist.bodyOutcome = "ok" /\ specState = "resolved") =>
        internalError = Null

\* C9 witness: a successful run during which the body handled a bridge
\* rejection and a delivered-event handler raised before the final handoff.
C9_Witness ==
    /\ pc = "completed" /\ hist.bodyOutcome = "ok" /\ specState = "resolved"
    /\ hist.handledReject
    /\ \E d \in 1..Len(deliveries), i \in 1..Len(resumes), j \in 1..Len(resumes) :
          /\ deliveries[d].hstate = "threw"
          /\ resumes[i] = DeliverTag(d) /\ resumes[j] = RunTag /\ i < j

RECURSIVE SpaceJoined(_)
\* The arguments of one log call, each as text, with one space between
\* neighbours.
SpaceJoined(args) ==
    IF args = <<>> THEN <<>>
    ELSE ToString(Head(args))
            \o (IF Tail(args) = <<>> THEN <<>> ELSE <<SP>> \o SpaceJoined(Tail(args)))

\* The entries the log calls made so far should have produced, call by call.
ExpectedEntries ==
    [i \in 1..Len(hist.logCalls) |->
        [time |-> hist.logCalls[i].time, message |-> SpaceJoined(hist.logCalls[i].args)]]

\* C10: serializeLogs() is the document of one entry per log call, in call
\* order, each message the call's arguments joined by single spaces.
C10_LogsInCallOrder ==
    /\ Len(internalLogs) = Len(hist.logCalls)
    /\ getInternalLogs = JSONstringify(ExpectedEntries)

\* C10 witness: a handler's log call came between or before the body's, and
\* a call had two arguments.
C10_Witness ==
    /\ Len(hist.logCalls) >= 2
    /\ hist.logCalls[1].who = "handler" /\ hist.logCalls[2].who = "body"
    /\ Len(hist.logCalls[2].args) = 2
    /\ internalLogs[1].message # internalLogs[2].message
\* C11: a deliver call with a parseable payload invokes the handler that was
\* registered last, with the parsed payload, and what a delivery invoked
\* never changes afterwards (no handler is invoked a second time or later).
C11_LastWriteWins ==
    [][ /\ (Len(deliveries') = Len(deliveries) + 1 /\ deliveries'[Len(deliveries')].ok) =>
              /\ deliveries'[Len(deliveries')].handler = hist.lastRegistered
              /\ deliveries'[Len(deliveries')].arg
                    = JSONparse(deliveries'[Len(deliveries')].payload).value
        /\ \A d \in 1..Len(deliveries) :
              /\ Len(deliveries') >= d
              /\ deliveries'[d].handler = deliveries[d].handler
              /\ deliveries'[d].arg = deliveries[d].arg
      ]_vars

\* C11 witness: h1 was registered and used by the first delivery, h2 was
\* registered after it and is the one the second delivery invoked, with 42.
C11_Witness ==
    /\ Len(deliveries) = 2
    /\ deliveries[1].handler = "h1" /\ deliveries[2].handler = "h2"
    /\ deliveries[2].arg = NumV(42)

\* C12: a step that settles one bridge invocation leaves every other one as
\* it was, and a settled invocation holds a value the host reported for it.
C12_IndependentSettle ==
    /\ [](\A h \in 1..Len(execs) :
            Settled(h) =>
                /\ hist.reported[h].called
                /\ execs[h].value \in {hist.reported[h].result, hist.reported[h].error})
    /\ [][\A h \in 1..Len(execs), k \in 1..Len(execs) :
            (h # k /\ execs'[h] # execs[h]) => execs'[k] = execs[k]]_vars

\* C12 witness: the second of two outstanding invocations was completed with
\* a failure while the first is still pending.
C12_Witness ==
    /\ Len(execs) = 2
    /\ execs[1].state = "pending"
    /\ execs[2].state = "rejected"
\* C14: a bridge failure the body awaits and does not handle ends the run
\* with ErrorSlot holding its message, the jasmine run never started and one
\* final resume(); a bridge failure the body handles writes nothing to
\* ErrorSlot, which stays empty as long as the run has not failed.
C14_BridgeFailureEscalates ==
    /\ (pc = "completed" /\ hist.bodyOutcome = "threwAsync" /\ hist.thrown = BridgeError) =>
          /\ internalError = Str(BridgeError.message)
          /\ specState = "notStarted"
          /\ RunResumes = 1
    /\ (hist.handledReject /\ ~RunFailed) => internalError = Null

\* C14 witness: the body handled one bridge failure, let another one
\* escape, and the run ended.
C14_Witness ==
    /\ pc = "completed" /\ hist.bodyOutcome = "threwAsync"
    /\ hist.thrown = BridgeError /\ hist.handledReject
    /\ internalError = Str("netfail")

\* C15: the jasmine run starts only after the body has finished, and the
\* final resume() of a run whose body did not raise comes only after the
\* jasmine run has settled.
C15_SpecRunOrdering ==
    /\ (pc = "completed" /\ hist.bodyOutcome = "ok") =>
          specState \in {"resolved", "rejected"}
    /\ (specState # "notStarted") =>
          /\ hist.bodyOutcome = "ok"
          /\ pc \in {"awaitSpec", "catch", "finally", "completed"}

\* C15 witness: the body suspended on a bridge invocation, finished, the
\* jasmine run resolved and the run ended.
C15_Witness ==
    /\ pc = "completed" /\ hist.bodyOutcome = "ok"
    /\ hist.bodySuspended /\ specState = "resolved"

\* C18: a deliver call whose payload does not parse gets no resume() and
\* ends as a rejected promise, and the step leaves the log buffer, the
\* error slot, the callback slot and the resume() calls as they were.
C18_MalformedFrame ==
    /\ [](\A d \in 1..Len(deliveries) :
            ~deliveries[d].ok =>
                DeliverResumes(d) = 0 /\ deliveries[d].result = "rejected")
    /\ [][(Len(deliveries') = Len(deliveries) + 1 /\ ~deliveries'[Len(deliveries')].ok) =>
            UNCHANGED <<internalLogs, internalError, callback, resumes>>]_vars

\* C18 witness: a malformed payload arrived after a log call, a
\* registration and an earlier handoff, and its call has no resume().
C18_Witness ==
    /\ Len(deliveries) = 2
    /\ ~deliveries[2].ok /\ deliveries[2].result = "rejected"
    /\ DeliverResumes(2) = 0 /\ DeliverResumes(1) = 1
    /\ Len(internalLogs) > 0 /\ callback \in Handlers

\* C19: a delivery invokes the handler __callback holds at that moment; a
\* registration made while a delivery is in progress changes __callback
\* only, not the handler or the position of that delivery.
C19_HandlerFixedAtInvocation ==
    [][ /\ (Len(deliveries') = Len(deliveries) + 1 /\ deliveries'[Len(deliveries')].ok) =>
              deliveries'[Len(deliveries')].handler = callback
        /\ (dpc # "idle" /\ callback' # callback) =>
              /\ Len(deliveries') = Len(deliveries)
              /\ deliveries'[CurD].handler = deliveries[CurD].handler
              /\ dpc' = dpc
      ]_vars

\* C19 witness: the handler h1 of the delivery in progress is suspended
\* while __callback already holds h2.
C19_Witness ==
    /\ dpc = "suspended"
    /\ deliveries[CurD].handler = "h1"
    /\ callback = "h2"
\* What the promise of a handle should be after the first report r of the
\* host, by the truthiness of the failure.
SettledAs(r) ==
    IF Truthy(r.error) THEN [state |-> "rejected", value |-> r.error]
    ELSE [state |-> "resolved", value |-> r.result]

\* C13 as stated: whenever the host reported a failure value, the promise is
\* rejected with that value; otherwise it is resolved with the result.
C13_Original ==
    \A h \in 1..Len(execs) :
        hist.reported[h].called =>
            execs[h] = IF hist.reported[h].error # NullV
                       THEN [state |-> "rejected", value |-> hist.reported[h].error]
                       ELSE [state |-> "resolved", value |-> hist.reported[h].result]

\* C13 amended: a truthy failure value rejects the promise with that value
\* unchanged; no failure value, or a falsy one, resolves it with the result
\* the host reported; a promise the host has not reported on is pending.
C13_SettlesByTruthiness ==
    \A h \in 1..Len(execs) :
        /\ hist.reported[h].called => execs[h] = SettledAs(hist.reported[h])
        /\ hist.reported[h] = NoReport => execs[h].state = "pending"

\* C13 witness: one invocation rejected with the failure the host reported,
\* another one resolved although the host reported a (falsy) failure value.
C13_Witness ==
    /\ Len(execs) = 2
    /\ hist.reported[1].error = BridgeError /\ execs[1].state = "rejected"
    /\ hist.reported[2].error = FalsyV /\ execs[2].state = "resolved"

\* C17: the log buffer only grows at its end and only by a log call; a call
\* of __getInternalLogs changes neither the buffer, the error slot, the
\* callback slot nor the resume() calls, and the document it returned is the
\* one a further call returns as long as no log call is made.
C17_AppendOnlyPureSerialize ==
    /\ [](hist.lastDoc # NoDoc => hist.lastDoc = getInternalLogs)
    /\ [][ /\ IsPrefix(internalLogs, internalLogs')
           /\ (internalLogs' # internalLogs =>
                  /\ Len(hist.logCalls') = Len(hist.logCalls) + 1
                  /\ Len(internalLogs') = Len(internalLogs) + 1)
           /\ ((hist.lastDoc' # hist.lastDoc /\ hist.lastDoc' # NoDoc) =>
                  UNCHANGED <<internalLogs, internalError, callback, resumes>>)
         ]_vars

\* C17 witness: the host holds the document of a buffer of two entries,
\* read after a handoff.
C17_Witness ==
    /\ hist.lastDoc # NoDoc
    /\ Len(internalLogs) >= 2
    /\ Len(resumes) >= 1

\* C20: a settled promise never changes again, so only the first call of a
\* completion callback decides it; and when __exec.exec throws, the new
\* promise is rejected with what was thrown while the caller goes on.
C20_SettlesOnce ==
    /\ [](\A h \in 1..Len(execs) :
            /\ hist.reported[h].called => execs[h] = SettledAs(hist.reported[h])
            /\ hist.reported[h] = StartFailed =>
                  execs[h] = [state |-> "rejected", value |-> StartError])
    /\ [][ /\ \A h \in 1..Len(execs) :
                execs[h].state # "pending" => execs'[h] = execs[h]
           /\ (Len(execs') = Len(execs) + 1 /\ execs'[Len(execs')].state = "rejected") =>
                UNCHANGED <<pc, exc, cur, dpc, hexc>>
         ]_vars

\* C20 witness: the host called a completion callback a second time with
\* another outcome, and one invocation could not be started.
C20_Witness ==
    /\ hist.recompleted
    /\ \E h \in 1..Len(execs) : hist.reported[h] = StartFailed
    /\ \E h \in 1..Len(execs) : hist.reported[h].called /\ execs[h].state = "resolved"
\* C16: under fair scheduling and a host that settles what the body
\* awaits, the run driver reaches its final handoff; while the invocation
\* the body awaits is not completed the body stays suspended and no final
\* resume() is issued, and while the invocation a handler awaits is not
\* completed the delivery stays suspended and its resume() is not issued:
\* nothing but the host's completion ends the wait.
C16_NoTimeout ==
    /\ <>(pc = "completed" /\ RunResumes = 1)
    /\ [](pc = "awaitExec" => RunResumes = 0)
    /\ [](dpc = "suspended" => DeliverResumes(CurD) = 0)
    /\ [][ /\ (pc = "awaitExec" /\ ~Settled(bodyWait)) =>
                (pc' = "awaitExec" /\ bodyWait' = bodyWait)
           /\ (dpc = "suspended" /\ ~Settled(hWait)) =>
                (dpc' = "suspended" /\ hWait' = hWait /\ CurD' = CurD)
         ]_vars

\* C16 witness: the run has made its final handoff after the body waited
\* for an invocation, while a handler still waits for an invocation the
\* host has not completed and its delivery has made no handoff.
C16_Witness ==
    /\ pc = "completed" /\ hist.bodySuspended
    /\ dpc = "suspended" /\ ~Settled(hWait)
    /\ DeliverResumes(CurD) = 0
====
